---- MODULE Spec2Model ----
(***************************************************************************)
(* Edge Pulse latency pipeline of the marketing site: the page-side        *)
(* readiness handshake (ensureEdgePulseWorker), the measurement worker     *)
(* (fetch listener, handleMeasurementRequest, attemptMeasurement), the     *)
(* page-side orchestrator (runEdgePulse, measureVendorLatency,             *)
(* measureViaDirectFetch), the analytics snippet injector (Analytics) and  *)
(* the analyst carousel (initAnalystCarousel).                              *)
(*                                                                         *)
(* Every action is one run-to-completion step of the JavaScript event      *)
(* loop: a call, a timer callback or the settling of a promise, together   *)
(* with the continuations (microtasks) it triggers up to the next await.   *)
(* Time is kept per timer, as the milliseconds elapsed since it was armed; *)
(* Tick lets time pass, and never past the deadline of an armed timer.     *)
(***************************************************************************)
EXTENDS Integers, Sequences, FiniteSets, TLC

\* ------------------------------------------------------------------ bounds
MaxAttempts == 3     \* readiness computations that may be started
MaxCalls == 4        \* ensureEdgePulseWorker calls of the stand-alone callers
TickMs == 12000      \* the largest amount of time one Tick lets pass
NumVendors == 2      \* how many entries of the vendor list runEdgePulse is followed for
MaxPre == 2          \* elements a document part holds before the first Analytics call
MaxAnalyticsCalls == 3
MaxInsights == 6      \* the longest insights list looked at
CarouselTickMs == 2000 \* the amount of time one CarouselTick lets pass

\* ------------------------------------------------------------ state
VARIABLES
  \* --- page: ensureEdgePulseWorker (src/app.js 34-93)
  swApi,             \* "absent": no 'serviceWorker' in navigator; "broken": the
                     \* property exists but evaluating
                     \* navigator.serviceWorker.register(...) throws
                     \* synchronously; "ok": register returns a promise
  readinessPromise,  \* 0 = undefined/null, else the id of the memoized promise
  promiseState,      \* promise id -> "none" | "pending" | "true" | "false"
  compPc,            \* promise id -> position of its async body
  resolved,          \* promise id -> the `resolved` flag of the controller wait
  timeoutId,         \* promise id -> "none" | "armed" | "fired" | "cleared"
  waited,            \* promise id -> ms since its 5-second timer was armed
  listening,         \* promise id -> handleChange is a controllerchange listener
  controller,        \* navigator.serviceWorker.controller is set
  changeQueued,      \* a controllerchange event is queued, not yet dispatched
  registerCalls,     \* number of navigator.serviceWorker.register calls
  callLog,           \* one record per ensureEdgePulseWorker call: the memo it
                     \* found and that promise's state, the promise it
                     \* returned, and whether it called register
  \* --- worker: one slot per intercepted request (src/unnamed/part_000 49-156)
  wReq,              \* slot -> the request of the fetch event
  wPc,               \* slot -> "idle" | "cors" | "no-cors" | "responded" | "fallthrough"
  wElapsed,          \* slot -> performance.now() - start of the pending attempt
  wTimer,            \* slot -> "none" | "armed" | "fired" | "cleared" (timeoutId)
  wLog,              \* slot -> the attempts made so far, in order
  wResp,             \* slot -> the response given to respondWith
  \* --- page: runEdgePulse and the per-vendor measurement (src/app.js 223-371)
  grid,              \* grid.innerHTML: "empty" | "loading" | "results"
  pPc,               \* vendor -> "idle" | "ready" | "worker" | "cors" | "no-cors" | "settled"
  awaited,           \* vendor -> the readiness promise it awaits (0: Promise.resolve(false))
  pElapsed,          \* vendor -> performance.now() - start of the pending direct attempt
  pTimer,            \* vendor -> timeoutId of the pending direct attempt
  pLog,              \* vendor -> the direct attempts made so far, in order
  pWorker,           \* vendor -> what the worker path gave: its response, and its fate
  entry,             \* vendor -> the result entry of its measurement
  settleOrder,       \* the vendors in the order their measurements settled
  results,           \* the array handed to renderResults
  \* --- Analytics (src/unnamed/part_000 1-47)
  head,              \* the children of document.head, in order
  body,              \* the other elements of the document, in order
  doc0,              \* the document before the first call
  returns,           \* the return values of the Analytics calls so far
  \* --- analyst carousel (src/app.js 443-478)
  insights,          \* insights.length of the list data/analyst-insights.json gives
  carouselPc,        \* "loading" | "running" | "failed" (render threw in line 472)
  index,             \* the closure variable `index`
  shown,             \* the item carousel.innerHTML shows ("none" before a render)
  sinceAdvance,      \* ms since the interval timer was set or last ran
  lastGoTo           \* the last goTo call: its direction and the index it found

readyVars == <<swApi, readinessPromise, promiseState, compPc, resolved, timeoutId, waited,
               listening, controller, changeQueued, registerCalls, callLog>>
workerVars == <<wReq, wPc, wElapsed, wTimer, wLog, wResp>>
pageVars == <<grid, pPc, awaited, pElapsed, pTimer, pLog, pWorker, entry, settleOrder, results>>
docVars == <<head, body, doc0, returns>>
carouselVars == <<insights, carouselPc, index, shown, sinceAdvance, lastGoTo>>

vars == <<readyVars, workerVars, pageVars, docVars, carouselVars>>

\* ------------------------------------------------------------ JS values
\* a JSON / JS value: a finite number, NaN, a string or undefined
Num(n) == [t |-> "number", n |-> n, s |-> ""]
Str(x) == [t |-> "string", n |-> 0, s |-> x]
NaN == [t |-> "NaN", n |-> 0, s |-> ""]
Undefined == [t |-> "undefined", n |-> 0, s |-> ""]
\* Number.isFinite
IsFinite(x) == x.t = "number"

Min(a, b) == IF a <= b THEN a ELSE b

\* ------------------------------------------------- ensureEdgePulseWorker
Attempts == 1..MaxAttempts

\* app.js line 59: the controller wait is bounded by 5 seconds
CONTROLLER_TIMEOUT == 5000

ReadyInit ==
  /\ swApi \in {"absent", "broken", "ok"}
  /\ readinessPromise = 0
  /\ promiseState = [p \in Attempts |-> "none"]
  /\ compPc = [p \in Attempts |-> "none"]
  /\ resolved = [p \in Attempts |-> FALSE]
  /\ timeoutId = [p \in Attempts |-> "none"]
  /\ waited = [p \in Attempts |-> 0]
  /\ listening = [p \in Attempts |-> FALSE]
  /\ controller \in BOOLEAN
  /\ changeQueued = FALSE
  /\ registerCalls = 0
  /\ callLog = <<>>

\* the closure state an ensureEdgePulseWorker call reads and writes
Closure ==
  [memo |-> readinessPromise, ps |-> promiseState, pc |-> compPc,
   reg |-> registerCalls, log |-> callLog]

\* the id of the promise the next async body creates (0: none left in the model)
FreshPromise(ps) ==
  IF \E p \in Attempts : ps[p] = "none"
  THEN CHOOSE p \in Attempts : ps[p] = "none" /\ \A q \in Attempts : ps[q] = "none" => p <= q
  ELSE 0

\* the state of the memoized promise ("none" when nothing is memoized)
StateOf(ps, memo) == IF memo = 0 THEN "none" ELSE ps[memo]

\* app.js line 41: `if (!readinessPromise)`
AlwaysStart(memo) == TRUE
MemoEmpty(memo) == memo = 0

\* One call of ensureEdgePulseWorker() (app.js lines 36-92) on closure state s;
\* the value returned is the `ret` of the last log entry. The async body runs
\* synchronously up to its first await, so register is called inside the call
\* (line 44). When evaluating that call throws, the catch clause (lines 83-86)
\* clears the memo and the body returns false BEFORE the assignment of line 42
\* stores the promise the body returned.
EnsureCall(s) ==
  IF swApi = "absent"
  THEN [s EXCEPT !.log = Append(@, [memo |-> s.memo, was |-> StateOf(s.ps, s.memo),
                                    ret |-> 0, reg |-> FALSE])]
  ELSE IF MemoEmpty(s.memo)
  THEN LET p == FreshPromise(s.ps)
           thrown == swApi = "broken"
       IN [memo |-> p,   \* line 42 (after line 85, when the body threw at once)
           ps |-> [s.ps EXCEPT ![p] = IF thrown THEN "false" ELSE "pending"],
           pc |-> [s.pc EXCEPT ![p] = IF thrown THEN "done" ELSE "register"],
           reg |-> s.reg + 1,
           log |-> Append(s.log, [memo |-> s.memo, was |-> StateOf(s.ps, s.memo),
                                  ret |-> p, reg |-> TRUE])]
  ELSE [s EXCEPT !.log = Append(@, [memo |-> s.memo, was |-> StateOf(s.ps, s.memo),
                                    ret |-> s.memo, reg |-> FALSE])]

\* a call is possible while the model has a promise id left for it
CanCall(s) == swApi = "absent" \/ ~MemoEmpty(s.memo) \/ FreshPromise(s.ps) # 0

\* writes a closure state back to the variables
StoreClosure(s) ==
  /\ readinessPromise' = s.memo
  /\ promiseState' = s.ps
  /\ compPc' = s.pc
  /\ registerCalls' = s.reg
  /\ callLog' = s.log

\* the async body ends in failure (lines 81-82, 85-86): the memo is cleared and
\* the promise resolves false
FailComputation(p) ==
  /\ readinessPromise' = 0
  /\ promiseState' = [promiseState EXCEPT ![p] = "false"]
  /\ compPc' = [compPc EXCEPT ![p] = "done"]

\* the async body returns true (lines 48, 78): the memo is kept
SucceedComputation(p) ==
  /\ readinessPromise' = readinessPromise
  /\ promiseState' = [promiseState EXCEPT ![p] = "true"]
  /\ compPc' = [compPc EXCEPT ![p] = "done"]

\* a caller outside runEdgePulse calls ensureEdgePulseWorker()
EnsureEdgePulseWorker ==
  /\ Len(callLog) < MaxCalls
  /\ CanCall(Closure)
  /\ StoreClosure(EnsureCall(Closure))
  /\ UNCHANGED <<swApi, resolved, timeoutId, waited, listening, controller, changeQueued>>
  /\ UNCHANGED <<workerVars, pageVars, docVars, carouselVars>>

\* line 44: the register promise rejects -> catch (lines 83-86)
RegisterRejects(p) ==
  /\ compPc[p] = "register"
  /\ FailComputation(p)
  /\ UNCHANGED <<swApi, resolved, timeoutId, waited, listening, controller, changeQueued,
                 registerCalls, callLog>>
  /\ UNCHANGED <<workerVars, pageVars, docVars, carouselVars>>

\* line 44 resolves; line 45 starts waiting for navigator.serviceWorker.ready
RegisterResolves(p) ==
  /\ compPc[p] = "register"
  /\ compPc' = [compPc EXCEPT ![p] = "ready"]
  /\ UNCHANGED <<swApi, readinessPromise, promiseState, resolved, timeoutId, waited,
                 listening, controller, changeQueued, registerCalls, callLog>>
  /\ UNCHANGED <<workerVars, pageVars, docVars, carouselVars>>

\* line 45 resolves (the registration has an active worker); lines 47-75: with a
\* controller the body returns true; otherwise the controller wait is set up
\* (timer armed, listener added; line 72 re-reads the controller that line 47
\* just found absent, so handleChange is not called there)
ReadyResolves(p) ==
  /\ compPc[p] = "ready"
  /\ IF controller
     THEN /\ SucceedComputation(p)
          /\ UNCHANGED <<resolved, timeoutId, waited, listening>>
     ELSE /\ compPc' = [compPc EXCEPT ![p] = "controller"]
          /\ resolved' = [resolved EXCEPT ![p] = FALSE]
          /\ timeoutId' = [timeoutId EXCEPT ![p] = "armed"]
          /\ waited' = [waited EXCEPT ![p] = 0]
          /\ listening' = [listening EXCEPT ![p] = TRUE]
          /\ UNCHANGED <<readinessPromise, promiseState>>
  /\ UNCHANGED <<swApi, controller, changeQueued, registerCalls, callLog>>
  /\ UNCHANGED <<workerVars, pageVars, docVars, carouselVars>>

\* the registered worker claims the page (clients.claim, part_000 line 75): the
\* controller is set and a controllerchange event is queued
ControllerAppears ==
  /\ ~controller
  /\ swApi = "ok"
  /\ registerCalls > 0
  /\ controller' = TRUE
  /\ changeQueued' = TRUE
  /\ UNCHANGED <<swApi, readinessPromise, promiseState, compPc, resolved, timeoutId, waited,
                 listening, registerCalls, callLog>>
  /\ UNCHANGED <<workerVars, pageVars, docVars, carouselVars>>

\* line 59: the timer callback may run once 5 seconds have passed
DueAtOnce(ms) == TRUE
ControllerTimerDue(ms) == ms >= CONTROLLER_TIMEOUT

\* lines 53-59: the 5-second timer fires; then lines 77-82 run
ControllerTimeout(p) ==
  /\ timeoutId[p] = "armed"
  /\ ControllerTimerDue(waited[p])
  /\ timeoutId' = [timeoutId EXCEPT ![p] = "fired"]
  /\ IF ~resolved[p]
     THEN /\ resolved' = [resolved EXCEPT ![p] = TRUE]
          /\ listening' = [listening EXCEPT ![p] = FALSE]
          /\ IF controller THEN SucceedComputation(p) ELSE FailComputation(p)
     ELSE UNCHANGED <<resolved, listening, readinessPromise, promiseState, compPc>>
  /\ UNCHANGED <<swApi, waited, controller, changeQueued, registerCalls, callLog>>
  /\ UNCHANGED <<workerVars, pageVars, docVars, carouselVars>>

\* lines 61-68: the controllerchange event is dispatched to the listeners; then
\* lines 77-78 return true
ControllerChange ==
  /\ changeQueued
  /\ changeQueued' = FALSE
  /\ LET hit == {p \in Attempts : listening[p] /\ ~resolved[p]} IN
     /\ resolved' = [p \in Attempts |-> IF p \in hit THEN TRUE ELSE resolved[p]]
     /\ timeoutId' = [p \in Attempts |-> IF p \in hit THEN "cleared" ELSE timeoutId[p]]
     /\ listening' = [p \in Attempts |-> IF p \in hit THEN FALSE ELSE listening[p]]
     /\ promiseState' = [p \in Attempts |-> IF p \in hit THEN "true" ELSE promiseState[p]]
     /\ compPc' = [p \in Attempts |-> IF p \in hit THEN "done" ELSE compPc[p]]
  /\ UNCHANGED <<swApi, readinessPromise, waited, controller, registerCalls, callLog>>
  /\ UNCHANGED <<workerVars, pageVars, docVars, carouselVars>>

\* ------------------------------------------------------------ the worker
\* part_000 lines 49-54: the worker's vendor table (a Map from id to URL)
WorkerTargets ==
  "cloudflare" :> "https://www.cloudflare.com/" @@
  "akamai" :> "https://www.akamai.com/" @@
  "fastly" :> "https://www.fastly.com/" @@
  "aws-amazon" :> "https://aws.amazon.com/"

\* EDGE_VENDOR_TARGETS.get(vendorId) (part_000 line 113)
TargetsGet(vendorId) ==
  IF vendorId \in DOMAIN WorkerTargets THEN WorkerTargets[vendorId] ELSE "undefined"

\* part_000 line 56
MEASUREMENT_TIMEOUT == 12000

\* url.searchParams.get('id') of a URL without an id parameter
Null == "<null>"

SelfOrigin == "https://cdn.guru"
MeasurePath == "/edge-pulse/measure"

\* the requests an intercepting worker may see
Methods == {"GET", "OPTIONS", "POST", "HEAD"}
Origins == {SelfOrigin, "https://www.cloudflare.com"}
Paths == {MeasurePath, "/", "/edge-pulse/measure/"}
QueryIds == {Null, "", "cloudflare", "akamai", "fastly", "aws-amazon", "Cloudflare", "aws"}
Requests == [method : Methods, origin : Origins, path : Paths, id : QueryIds]
NoRequest == [method |-> "", origin |-> "", path |-> "", id |-> Null]

\* part_000 lines 58-68: jsonResponse(status, body); the bodies the worker sends
JsonResponse(status, payload) == [status |-> status, body |-> payload]
LatencyBody(latency, mode) == [latency |-> Num(latency), mode |-> mode, error |-> ""]
ErrorBody(msg) == [latency |-> Undefined, mode |-> "", error |-> msg]
NoResponse == [status |-> 0, body |-> ErrorBody("")]
\* part_000 line 140: the answer to OPTIONS (no body)
OptionsResponse == [status |-> 204, body |-> ErrorBody("")]

\* How the fetch of an attempt can settle by itself: a response with a success
\* status, a response with another status, or a network error.
NetOutcomes == {"ok", "notok", "neterr"}

\* part_000 lines 82-104: what attemptMeasurement makes of the settled fetch.
\* A rejected fetch (network error, abort) is rethrown; a cors response that is
\* not ok throws; otherwise the latency measured at this point is returned.
AbortIgnored(mode, net, elapsed) ==
  IF net = "neterr" THEN [thrown |-> TRUE, latency |-> 0]
  ELSE IF mode = "cors" /\ net = "notok" THEN [thrown |-> TRUE, latency |-> 0]
  ELSE [thrown |-> FALSE, latency |-> elapsed]
CorsStatusIgnored(mode, net, elapsed) ==
  IF net \in {"neterr", "abort"} THEN [thrown |-> TRUE, latency |-> 0]
  ELSE [thrown |-> FALSE, latency |-> elapsed]
StatusCheckedInAllModes(mode, net, elapsed) ==
  IF net \in {"neterr", "abort"} THEN [thrown |-> TRUE, latency |-> 0]
  ELSE IF net # "ok" THEN [thrown |-> TRUE, latency |-> 0]
  ELSE [thrown |-> FALSE, latency |-> elapsed]
AttemptMeasurement(mode, net, elapsed) ==
  IF net \in {"neterr", "abort"} THEN [thrown |-> TRUE, latency |-> 0]
  ELSE IF mode = "cors" /\ net # "ok" THEN [thrown |-> TRUE, latency |-> 0]
  ELSE [thrown |-> FALSE, latency |-> elapsed]

\* part_000 line 80: the timer callback may run once the timeout has passed
WorkerTimerDue(elapsed) == elapsed >= MEASUREMENT_TIMEOUT

\* part_000 lines 108-109: the request names no known vendor
NullOnly(vendorId) == vendorId = Null
UnknownVendor(vendorId) ==
  vendorId = Null \/ vendorId = "" \/ vendorId \notin DOMAIN WorkerTargets

\* part_000 lines 131-156: what the fetch listener does with a request
ListenerVerdict(req) ==
  IF req.method = "OPTIONS" THEN "options"
  ELSE IF req.method # "GET" THEN "fallthrough"
  ELSE IF req.origin # SelfOrigin THEN "fallthrough"
  ELSE IF req.path = MeasurePath THEN "measure"
  ELSE "fallthrough"

\* The fetch listener on one request (part_000 lines 131-156), with the
\* synchronous start of handleMeasurementRequest (lines 107-116): an unknown
\* vendor id is answered 400 at once, a known one starts the cors attempt.
FetchListener(r, req) ==
  /\ wPc[r] = "idle"
  /\ wReq' = [wReq EXCEPT ![r] = req]
  /\ LET verdict == ListenerVerdict(req) IN
     CASE verdict = "options" ->
            /\ wPc' = [wPc EXCEPT ![r] = "responded"]
            /\ wResp' = [wResp EXCEPT ![r] = OptionsResponse]
            /\ UNCHANGED <<wElapsed, wTimer>>
       [] verdict = "fallthrough" ->
            /\ wPc' = [wPc EXCEPT ![r] = "fallthrough"]
            /\ UNCHANGED <<wResp, wElapsed, wTimer>>
       [] verdict = "measure" /\ UnknownVendor(req.id) ->
            /\ wPc' = [wPc EXCEPT ![r] = "responded"]
            /\ wResp' = [wResp EXCEPT ![r] =
                           JsonResponse(400, ErrorBody("Unknown vendor id"))]
            /\ UNCHANGED <<wElapsed, wTimer>>
       [] OTHER ->
            /\ wPc' = [wPc EXCEPT ![r] = "cors"]
            /\ wElapsed' = [wElapsed EXCEPT ![r] = 0]
            /\ wTimer' = [wTimer EXCEPT ![r] = "armed"]
            /\ UNCHANGED wResp
  /\ UNCHANGED wLog

\* The continuation of handleMeasurementRequest after the pending attempt ended
\* with `net` (part_000 lines 95-104, then 116-128): a cors success answers 200
\* cors, a cors failure starts the no-cors attempt, a no-cors success answers
\* 200 no-cors and a no-cors failure 504. `timer` is what became of the
\* attempt's timer: cleared by the finally clause, or fired.
HandleMeasurementRequest(r, net, timer) ==
  LET mode == wPc[r]
      out == AttemptMeasurement(mode, net, wElapsed[r])
      logged == [mode |-> mode, net |-> net, thrown |-> out.thrown,
                 latency |-> out.latency]
  IN
  /\ wLog' = [wLog EXCEPT ![r] = Append(@, logged)]
  /\ IF ~out.thrown
     THEN /\ wPc' = [wPc EXCEPT ![r] = "responded"]
          /\ wResp' = [wResp EXCEPT ![r] = JsonResponse(200, LatencyBody(out.latency, mode))]
          /\ wTimer' = [wTimer EXCEPT ![r] = timer]
          /\ wElapsed' = [wElapsed EXCEPT ![r] = 0]
     ELSE IF mode = "cors"
     THEN /\ wPc' = [wPc EXCEPT ![r] = "no-cors"]
          /\ wElapsed' = [wElapsed EXCEPT ![r] = 0]
          /\ wTimer' = [wTimer EXCEPT ![r] = "armed"]
          /\ UNCHANGED wResp
     ELSE /\ wPc' = [wPc EXCEPT ![r] = "responded"]
          /\ wResp' = [wResp EXCEPT ![r] =
                         JsonResponse(504, ErrorBody("Measurement failed"))]
          /\ wTimer' = [wTimer EXCEPT ![r] = timer]
          /\ wElapsed' = [wElapsed EXCEPT ![r] = 0]
  /\ UNCHANGED wReq

\* the vendor fetch of the worker's pending attempt settles before its timer ran
WorkerFetchSettles(r, net) ==
  /\ wPc[r] \in {"cors", "no-cors"}
  /\ wTimer[r] = "armed"
  /\ HandleMeasurementRequest(r, net, "cleared")
  /\ UNCHANGED <<readyVars, pageVars, docVars, carouselVars>>

\* part_000 line 80: the timer runs controller.abort(), the pending fetch rejects
WorkerTimerFires(r) ==
  /\ wPc[r] \in {"cors", "no-cors"}
  /\ wTimer[r] = "armed"
  /\ WorkerTimerDue(wElapsed[r])
  /\ HandleMeasurementRequest(r, "abort", "fired")
  /\ UNCHANGED <<readyVars, pageVars, docVars, carouselVars>>

\* the response (or the fall-through) of slot r has been delivered: the fetch
\* event is over and nothing of it is kept
EventOver(r) ==
  /\ wReq' = [wReq EXCEPT ![r] = NoRequest]
  /\ wPc' = [wPc EXCEPT ![r] = "idle"]
  /\ wTimer' = [wTimer EXCEPT ![r] = "none"]
  /\ wLog' = [wLog EXCEPT ![r] = <<>>]
  /\ wResp' = [wResp EXCEPT ![r] = NoResponse]
  /\ UNCHANGED wElapsed

\* ------------------------------------------------------------ the page
\* app.js lines 27-32
EDGE_VENDOR_TARGETS ==
  << [id |-> "cloudflare", vendor |-> "Cloudflare", url |-> "https://www.cloudflare.com/"],
     [id |-> "akamai", vendor |-> "Akamai", url |-> "https://www.akamai.com/"],
     [id |-> "fastly", vendor |-> "Fastly", url |-> "https://www.fastly.com/"],
     [id |-> "aws-amazon", vendor |-> "AWS Amazon", url |-> "https://aws.amazon.com/"] >>

\* the entries of the list that are followed: its first NumVendors
Vendors == 1..Min(NumVendors, Len(EDGE_VENDOR_TARGETS))

\* the worker's request slots: one per vendor request of the page, and slot 0
\* for a request of any other client
ExternalSlot == 0
Slots == {ExternalSlot} \cup Vendors

\* app.js line 226: the timeout of a direct attempt
DIRECT_TIMEOUT == 12000

NoEntry == [vendor |-> "", url |-> "", latency |-> Undefined, error |-> FALSE]
NoWorkerResult ==
  [tried |-> FALSE, rejected |-> FALSE, status |-> 0, json |-> FALSE,
   latency |-> Undefined, used |-> FALSE, fetches |-> 0]

\* app.js lines 269-275: the request of the worker path; the relative URL
\* resolves against the page's origin
PageRequest(v) ==
  [method |-> "GET", origin |-> SelfOrigin, path |-> MeasurePath,
   id |-> EDGE_VENDOR_TARGETS[v].id]

\* JSON.stringify (part_000 line 59) followed by response.json() (app.js 281):
\* a finite number survives, NaN becomes null, undefined drops the field
JsonRoundTrip(x) ==
  IF x.t = "NaN" THEN [t |-> "null", n |-> 0, s |-> ""] ELSE x

\* what the page sees of a response the worker gave after `fetches` timed
\* fetches of the vendor URL
ViewOf(resp, fetches) ==
  [tried |-> TRUE, rejected |-> FALSE, status |-> resp.status, json |-> resp.status # 204,
   latency |-> JsonRoundTrip(resp.body.latency), used |-> FALSE, fetches |-> fetches]

\* what the page may get for its request when this worker does not answer it
\* (another worker version controls the page, or the request goes to the
\* network): a body whose latency is not a number, an error status with a body
ForeignViews ==
  { [tried |-> TRUE, rejected |-> FALSE, status |-> 200, json |-> TRUE,
     latency |-> Str("not-a-number"), used |-> FALSE, fetches |-> 0],
    [tried |-> TRUE, rejected |-> FALSE, status |-> 500, json |-> TRUE,
     latency |-> Num(0), used |-> FALSE, fetches |-> 0] }

\* response.ok
Ok(status) == status >= 200 /\ status <= 299

\* app.js lines 270-287: the worker path yields a latency
AnyBodyAccepted(view) == ~view.rejected /\ Ok(view.status) /\ view.json
WorkerPathOk(view) ==
  /\ ~view.rejected
  /\ Ok(view.status)
  /\ view.json
  /\ IsFinite(view.latency)

\* app.js lines 228-250: what fetchWithMode makes of the settled fetch
FetchWithMode(mode, net, elapsed) ==
  IF net \in {"neterr", "abort"} THEN [thrown |-> TRUE, latency |-> 0]
  ELSE IF mode = "cors" /\ net # "ok" THEN [thrown |-> TRUE, latency |-> 0]
  ELSE [thrown |-> FALSE, latency |-> elapsed]

\* app.js line 226: the timer callback may run once the timeout has passed
DirectTimerDue(elapsed) == elapsed >= DIRECT_TIMEOUT

\* Promise.all (app.js line 358): the i-th result is that of the i-th promise
InSettleOrder(ent, order) == [i \in 1..Len(order) |-> ent[order[i]]]
PromiseAll(ent, order) == [i \in Vendors |-> ent[i]]

PageInit ==
  /\ grid = "empty"
  /\ pPc = [v \in Vendors |-> "idle"]
  /\ awaited = [v \in Vendors |-> 0]
  /\ pElapsed = [v \in Vendors |-> 0]
  /\ pTimer = [v \in Vendors |-> "none"]
  /\ pLog = [v \in Vendors |-> <<>>]
  /\ pWorker = [v \in Vendors |-> NoWorkerResult]
  /\ entry = [v \in Vendors |-> NoEntry]
  /\ settleOrder = <<>>
  /\ results = <<>>

WorkerInit ==
  /\ wReq = [r \in Slots |-> NoRequest]
  /\ wPc = [r \in Slots |-> "idle"]
  /\ wElapsed = [r \in Slots |-> 0]
  /\ wTimer = [r \in Slots |-> "none"]
  /\ wLog = [r \in Slots |-> <<>>]
  /\ wResp = [r \in Slots |-> NoResponse]

RECURSIVE EnsureTimes(_, _)
\* n successive calls of ensureEdgePulseWorker
EnsureTimes(s, n) == IF n = 0 THEN s ELSE EnsureCall(EnsureTimes(s, n - 1))

\* runEdgePulse up to its await (app.js lines 356-361, 265): the placeholder is
\* shown and the map starts measureVendorLatency for every vendor in turn, each
\* of which calls ensureEdgePulseWorker() before it first suspends
RunEdgePulse ==
  /\ grid = "empty"
  /\ \A v \in Vendors : pPc[v] = "idle"
  /\ \A i \in 0..(Cardinality(Vendors) - 1) : CanCall(EnsureTimes(Closure, i))
  /\ LET s == EnsureTimes(Closure, Cardinality(Vendors)) IN
     /\ StoreClosure(s)
     /\ awaited' = [v \in Vendors |-> s.log[Len(callLog) + v].ret]
  /\ grid' = "loading"
  /\ pPc' = [v \in Vendors |-> "ready"]
  /\ UNCHANGED <<swApi, resolved, timeoutId, waited, listening, controller, changeQueued>>
  /\ UNCHANGED <<pElapsed, pTimer, pLog, pWorker, entry, settleOrder, results>>
  /\ UNCHANGED <<workerVars, docVars, carouselVars>>

\* the measurement of vendor v settles with result entry e (app.js lines 362,
\* 365); when it is the last one, Promise.all resolves and renderResults runs
\* (lines 358-370, 336-353)
Settle(v, e) ==
  /\ pPc' = [pPc EXCEPT ![v] = "settled"]
  /\ entry' = [entry EXCEPT ![v] = e]
  /\ settleOrder' = Append(settleOrder, v)
  /\ IF \A u \in Vendors \ {v} : pPc[u] = "settled"
     THEN /\ results' = PromiseAll(entry', settleOrder')
          /\ grid' = "results"
     ELSE UNCHANGED <<results, grid>>

\* measureViaDirectFetch starts its cors attempt (app.js lines 293, 253-254,
\* 225-239)
StartDirect(v) ==
  /\ pPc' = [pPc EXCEPT ![v] = "cors"]
  /\ pElapsed' = [pElapsed EXCEPT ![v] = 0]
  /\ pTimer' = [pTimer EXCEPT ![v] = "armed"]
  /\ UNCHANGED <<entry, settleOrder, results, grid>>

\* the promise ensureEdgePulseWorker returned has settled / the value it gives
\* (promise 0 is the Promise.resolve(false) of app.js line 38)
PromiseSettled(p) == IF p = 0 THEN TRUE ELSE promiseState[p] \in {"true", "false"}
PromiseValue(p) == IF p = 0 THEN FALSE ELSE promiseState[p] = "true"

\* measureVendorLatency resumes with the readiness result (app.js lines
\* 265-275): a ready, controlling worker is asked; otherwise line 293 starts
\* the direct measurement
ReadinessObserved(v) ==
  /\ pPc[v] = "ready"
  /\ PromiseSettled(awaited[v])
  /\ LET workerReady == PromiseValue(awaited[v]) IN
     IF workerReady /\ controller
     THEN /\ pPc' = [pPc EXCEPT ![v] = "worker"]
          /\ UNCHANGED <<pElapsed, pTimer, entry, settleOrder, results, grid>>
     ELSE StartDirect(v)
  /\ UNCHANGED <<awaited, pLog, pWorker>>
  /\ UNCHANGED <<readyVars, workerVars, docVars, carouselVars>>

\* the worker's fetch listener receives the request of vendor v
PageRequestIntercepted(v) ==
  /\ pPc[v] = "worker"
  /\ FetchListener(v, PageRequest(v))
  /\ UNCHANGED <<readyVars, pageVars, docVars, carouselVars>>

\* measureVendorLatency resumes with what the fetch of line 270 gave (app.js
\* lines 277-290): a usable latency settles the measurement, anything else is
\* caught and line 293 starts the direct measurement
WorkerPathEnds(v, view) ==
  /\ pPc[v] = "worker"
  /\ IF WorkerPathOk(view)
     THEN /\ Settle(v, [vendor |-> EDGE_VENDOR_TARGETS[v].vendor,
                        url |-> EDGE_VENDOR_TARGETS[v].url,
                        latency |-> view.latency, error |-> FALSE])
          /\ pWorker' = [pWorker EXCEPT ![v] = [view EXCEPT !.used = TRUE]]
          /\ UNCHANGED <<pElapsed, pTimer>>
     ELSE /\ StartDirect(v)
          /\ pWorker' = [pWorker EXCEPT ![v] = view]
  /\ UNCHANGED <<awaited, pLog>>
  /\ UNCHANGED <<readyVars, docVars, carouselVars>>

\* the worker's response reaches the page
WorkerResponseArrives(v) ==
  /\ wPc[v] = "responded"
  /\ WorkerPathEnds(v, ViewOf(wResp[v], Len(wLog[v])))
  /\ EventOver(v)

\* the request was not answered by this worker
ForeignResponseArrives(v, view) ==
  /\ wPc[v] \in {"idle", "fallthrough"}
  /\ WorkerPathEnds(v, view)
  /\ EventOver(v)

\* The continuation of measureViaDirectFetch after the pending attempt ended
\* with `net` (app.js lines 241-250, then 253-261, 362-365): a success settles
\* the measurement; a cors failure starts the no-cors attempt; a no-cors
\* failure throws through measureVendorLatency into the catch of runEdgePulse,
\* which settles the vendor's entry as failed.
MeasureViaDirectFetch(v, net, timer) ==
  LET mode == pPc[v]
      target == EDGE_VENDOR_TARGETS[v]
      out == FetchWithMode(mode, net, pElapsed[v])
      logged == [mode |-> mode, net |-> net, thrown |-> out.thrown,
                 latency |-> out.latency]
  IN
  /\ pLog' = [pLog EXCEPT ![v] = Append(@, logged)]
  /\ IF ~out.thrown
     THEN /\ Settle(v, [vendor |-> target.vendor, url |-> target.url,
                        latency |-> Num(out.latency), error |-> FALSE])
          /\ pTimer' = [pTimer EXCEPT ![v] = timer]
          /\ pElapsed' = [pElapsed EXCEPT ![v] = 0]
     ELSE IF mode = "cors"
     THEN /\ pPc' = [pPc EXCEPT ![v] = "no-cors"]
          /\ pElapsed' = [pElapsed EXCEPT ![v] = 0]
          /\ pTimer' = [pTimer EXCEPT ![v] = "armed"]
          /\ UNCHANGED <<entry, settleOrder, results, grid>>
     ELSE /\ Settle(v, [vendor |-> target.vendor, url |-> target.url,
                        latency |-> NaN, error |-> TRUE])
          /\ pTimer' = [pTimer EXCEPT ![v] = timer]
          /\ pElapsed' = [pElapsed EXCEPT ![v] = 0]
  /\ UNCHANGED <<awaited, pWorker>>

\* the fetch of the page's pending direct attempt settles before its timer ran
DirectFetchSettles(v, net) ==
  /\ pPc[v] \in {"cors", "no-cors"}
  /\ pTimer[v] = "armed"
  /\ MeasureViaDirectFetch(v, net, "cleared")
  /\ UNCHANGED <<readyVars, workerVars, docVars, carouselVars>>

\* app.js line 226: the timer runs controller.abort(), the pending fetch rejects
DirectTimerFires(v) ==
  /\ pPc[v] \in {"cors", "no-cors"}
  /\ pTimer[v] = "armed"
  /\ DirectTimerDue(pElapsed[v])
  /\ MeasureViaDirectFetch(v, "abort", "fired")
  /\ UNCHANGED <<readyVars, workerVars, docVars, carouselVars>>

\* an external client's request reaches the worker's fetch listener
ClientRequest(req) ==
  /\ FetchListener(ExternalSlot, req)
  /\ UNCHANGED <<readyVars, pageVars, docVars, carouselVars>>

\* the external client has its answer (or the network's, after a fall-through)
ClientAnswered ==
  /\ wPc[ExternalSlot] \in {"responded", "fallthrough"}
  /\ EventOver(ExternalSlot)
  /\ UNCHANGED <<readyVars, pageVars, docVars, carouselVars>>

\* ------------------------------------------------------------ time
\* the time left on every armed timer
Remaining ==
  {CONTROLLER_TIMEOUT - waited[p] : p \in {q \in Attempts : timeoutId[q] = "armed"}}
  \cup {MEASUREMENT_TIMEOUT - wElapsed[r] : r \in {q \in Slots : wTimer[q] = "armed"}}
  \cup {DIRECT_TIMEOUT - pElapsed[v] : v \in {u \in Vendors : pTimer[u] = "armed"}}

\* Time passes, by at most TickMs and not past the deadline of an armed timer
\* (a due timer runs before more time passes).
Tick ==
  /\ Remaining # {}
  /\ \A x \in Remaining : x > 0
  /\ LET least == CHOOSE x \in Remaining : \A y \in Remaining : x <= y
         d == Min(TickMs, least)
     IN
     /\ waited' = [p \in Attempts |-> IF timeoutId[p] = "armed" THEN waited[p] + d ELSE waited[p]]
     /\ wElapsed' = [r \in Slots |-> IF wTimer[r] = "armed" THEN wElapsed[r] + d ELSE wElapsed[r]]
     /\ pElapsed' = [v \in Vendors |-> IF pTimer[v] = "armed" THEN pElapsed[v] + d ELSE pElapsed[v]]
  /\ UNCHANGED <<swApi, readinessPromise, promiseState, compPc, resolved, timeoutId,
                 listening, controller, changeQueued, registerCalls, callLog>>
  /\ UNCHANGED <<wReq, wPc, wTimer, wLog, wResp>>
  /\ UNCHANGED <<grid, pPc, awaited, pTimer, pLog, pWorker, entry, settleOrder, results>>
  /\ UNCHANGED <<docVars, carouselVars>>

\* ------------------------------------------------------------ analyst carousel
\* app.js line 474: the period of the auto-advance interval
AUTO_ADVANCE_MS == 8000

\* JavaScript `+` of a number value and an integer, and `%` (the remainder takes
\* the sign of the dividend; x % 0 and NaN % n are NaN)
JsAdd(x, k) == IF x.t = "number" THEN Num(x.n + k) ELSE NaN
JsRem(x, n) ==
  IF x.t # "number" \/ n = 0 THEN NaN
  ELSE IF x.n >= 0 THEN Num(x.n % n) ELSE Num(-((-x.n) % n))

\* app.js line 465: (index + direction + insights.length) % insights.length
NoWrap(idx, direction, n) == JsRem(JsAdd(idx, direction), n)
GoToIndex(idx, direction, n) == JsRem(JsAdd(JsAdd(idx, direction), n), n)

\* app.js lines 453-462: render reads insights[index]; it throws, and leaves the
\* carousel as it is, when there is no such item
HasItem(idx, n) == idx.t = "number" /\ idx.n >= 0 /\ idx.n < n
Render(idx, n, was) == IF HasItem(idx, n) THEN idx ELSE was

NoGoTo == [direction |-> 0, from |-> Undefined]

CarouselInit ==
  /\ insights \in 0..MaxInsights
  /\ carouselPc = "loading"
  /\ index = Undefined
  /\ shown = Undefined
  /\ sinceAdvance = 0
  /\ lastGoTo = NoGoTo

\* no carousel is looked at
CarouselIdle ==
  /\ insights = 0
  /\ carouselPc = "loading"
  /\ index = Undefined
  /\ shown = Undefined
  /\ sinceAdvance = 0
  /\ lastGoTo = NoGoTo

\* app.js lines 445-474: the insights have loaded; the listeners are attached,
\* the first item is rendered and the interval is set. With an empty list render
\* throws into the catch of line 475: the listeners stay, no interval is set.
InitAnalystCarousel ==
  /\ carouselPc = "loading"
  /\ index' = Num(0)
  /\ shown' = Render(Num(0), insights, shown)
  /\ carouselPc' = IF HasItem(Num(0), insights) THEN "running" ELSE "failed"
  /\ UNCHANGED <<insights, sinceAdvance, lastGoTo>>
  /\ UNCHANGED <<readyVars, workerVars, pageVars, docVars>>

\* app.js lines 464-467: goTo(direction)
GoTo(direction) ==
  /\ index' = GoToIndex(index, direction, insights)
  /\ shown' = Render(index', insights, shown)
  /\ lastGoTo' = [direction |-> direction, from |-> index]
  /\ UNCHANGED <<insights, carouselPc>>

\* app.js line 469: a click on the previous button
PrevClick ==
  /\ carouselPc \in {"running", "failed"}
  /\ GoTo(-1)
  /\ UNCHANGED sinceAdvance
  /\ UNCHANGED <<readyVars, workerVars, pageVars, docVars>>

\* app.js line 470: a click on the next button
NextClick ==
  /\ carouselPc \in {"running", "failed"}
  /\ GoTo(1)
  /\ UNCHANGED sinceAdvance
  /\ UNCHANGED <<readyVars, workerVars, pageVars, docVars>>

\* app.js line 474: the interval callback runs every 8 seconds
AutoAdvance ==
  /\ carouselPc = "running"
  /\ sinceAdvance >= AUTO_ADVANCE_MS
  /\ GoTo(1)
  /\ sinceAdvance' = 0
  /\ UNCHANGED <<readyVars, workerVars, pageVars, docVars>>

\* time passes for the carousel, not past the next run of the interval callback
CarouselTick ==
  /\ carouselPc = "running"
  /\ sinceAdvance < AUTO_ADVANCE_MS
  /\ sinceAdvance' = Min(sinceAdvance + CarouselTickMs, AUTO_ADVANCE_MS)
  /\ UNCHANGED <<insights, carouselPc, index, shown, lastGoTo>>
  /\ UNCHANGED <<readyVars, workerVars, pageVars, docVars>>

\* ------------------------------------------------------------ Analytics
\* part_000 lines 1-3
DEFAULT_SCRIPT_URL == "/_vercel/insights/script.js"
SCRIPT_ID == "vercel-analytics-script"
INLINE_SNIPPET_ID == "vercel-analytics-inline"

\* an element without the data-script-url attribute
NoAttr == "<none>"

\* the elements a document may hold before the first call: a script tag
\* written into the page (no data-script-url), an inline snippet, another element
PreElems ==
  { [id |-> SCRIPT_ID, src |-> DEFAULT_SCRIPT_URL, dsu |-> NoAttr],
    [id |-> INLINE_SNIPPET_ID, src |-> "", dsu |-> NoAttr],
    [id |-> "other", src |-> "", dsu |-> NoAttr] }

\* the scriptUrl option of a call: left out, or given
ScriptUrlOptions == {"<undefined>", "/custom/script.js"}

SeqsUpTo(S, n) == UNION {[1..k -> S] : k \in 0..n}

\* ids are unique in a document: at most one element carries each of the two
UniqueIds(h, b) ==
  \A id \in {SCRIPT_ID, INLINE_SNIPPET_ID} :
    Cardinality({i \in 1..Len(h) : h[i].id = id})
      + Cardinality({i \in 1..Len(b) : b[i].id = id}) <= 1

DocInit ==
  /\ head \in SeqsUpTo(PreElems, MaxPre)
  /\ body \in SeqsUpTo(PreElems, MaxPre)
  /\ UniqueIds(head, body)
  /\ doc0 = [head |-> head, body |-> body]
  /\ returns = <<>>

\* no document is looked at
DocIdle ==
  /\ head = <<>>
  /\ body = <<>>
  /\ doc0 = [head |-> <<>>, body |-> <<>>]
  /\ returns = <<>>

\* the index of the first element of `elems` with this id, 0 when there is none
IndexOfId(elems, id) ==
  IF \E i \in 1..Len(elems) : elems[i].id = id
  THEN CHOOSE i \in 1..Len(elems) :
         elems[i].id = id /\ \A j \in 1..Len(elems) : elems[j].id = id => i <= j
  ELSE 0

\* document.getElementById(id): does any element of the document carry the id
HasId(doc, id) == IndexOfId(doc.head, id) # 0 \/ IndexOfId(doc.body, id) # 0

\* part_000 line 25 on the first element with the id
MarkExisting(elems, id, scriptUrl) ==
  LET i == IndexOfId(elems, id) IN
  IF elems[i].dsu = NoAttr
  THEN [elems EXCEPT ![i].dsu = IF elems[i].src # "" THEN elems[i].src ELSE scriptUrl]
  ELSE elems

\* part_000 lines 20-38: ensureExternalScript on document doc
AlwaysAppendScript(doc, scriptUrl) ==
  [doc |-> [doc EXCEPT !.head = Append(@, [id |-> SCRIPT_ID, src |-> scriptUrl,
                                             dsu |-> scriptUrl])],
   inserted |-> TRUE]
EnsureExternalScript(doc, scriptUrl) ==
  IF HasId(doc, SCRIPT_ID)
  THEN [doc |-> IF IndexOfId(doc.head, SCRIPT_ID) # 0
                THEN [doc EXCEPT !.head = MarkExisting(@, SCRIPT_ID, scriptUrl)]
                ELSE [doc EXCEPT !.body = MarkExisting(@, SCRIPT_ID, scriptUrl)],
        inserted |-> FALSE]
  ELSE [doc |-> [doc EXCEPT !.head = Append(@, [id |-> SCRIPT_ID, src |-> scriptUrl,
                                                  dsu |-> scriptUrl])],
        inserted |-> TRUE]

\* part_000 lines 5-18: ensureInlineSnippet on document doc
EnsureInlineSnippet(doc) ==
  IF HasId(doc, INLINE_SNIPPET_ID)
  THEN [doc |-> doc, inserted |-> FALSE]
  ELSE [doc |-> [doc EXCEPT !.head = Append(@, [id |-> INLINE_SNIPPET_ID, src |-> "",
                                                  dsu |-> NoAttr])],
        inserted |-> TRUE]

\* part_000 lines 40-45: one call of Analytics(options)
Analytics(option) ==
  /\ Len(returns) < MaxAnalyticsCalls
  /\ LET scriptUrl == IF option = "<undefined>" THEN DEFAULT_SCRIPT_URL ELSE option
         ext == EnsureExternalScript([head |-> head, body |-> body], scriptUrl)
         inl == EnsureInlineSnippet(ext.doc)
     IN
     /\ head' = inl.doc.head
     /\ body' = inl.doc.body
     /\ returns' = Append(returns, [ret |-> ext.inserted \/ inl.inserted,
                                    added |-> Len(inl.doc.head) - Len(head)])
  /\ UNCHANGED doc0
  /\ UNCHANGED <<readyVars, workerVars, pageVars, carouselVars>>

\* ------------------------------------------------------------ specifications
QuietReady == ReadyInit /\ swApi = "ok" /\ ~controller

\* ensureEdgePulseWorker under any callers
ReadyNext ==
  \/ EnsureEdgePulseWorker
  \/ \E p \in Attempts : RegisterRejects(p)
  \/ \E p \in Attempts : RegisterResolves(p)
  \/ \E p \in Attempts : ReadyResolves(p)
  \/ ControllerAppears
  \/ \E p \in Attempts : ControllerTimeout(p)
  \/ ControllerChange
  \/ Tick
InitReady == ReadyInit /\ WorkerInit /\ PageInit /\ DocIdle /\ CarouselIdle
SpecReady == InitReady /\ [][ReadyNext]_vars

\* the worker under the requests of any client
WorkerNext ==
  \/ \E req \in Requests : ClientRequest(req)
  \/ \E net \in NetOutcomes : WorkerFetchSettles(ExternalSlot, net)
  \/ WorkerTimerFires(ExternalSlot)
  \/ Tick
InitWorker == QuietReady /\ WorkerInit /\ PageInit /\ DocIdle /\ CarouselIdle
SpecWorker == InitWorker /\ [][WorkerNext]_vars

\* Analytics on any document
AnalyticsNext == \E option \in ScriptUrlOptions : Analytics(option)
InitAnalytics == QuietReady /\ WorkerInit /\ PageInit /\ DocInit /\ CarouselIdle
SpecAnalytics == InitAnalytics /\ [][AnalyticsNext]_vars

\* the analyst carousel under any clicks
CarouselNext ==
  \/ InitAnalystCarousel
  \/ PrevClick
  \/ NextClick
  \/ AutoAdvance
  \/ CarouselTick
InitCarousel == QuietReady /\ WorkerInit /\ PageInit /\ DocIdle /\ CarouselInit
SpecCarousel == InitCarousel /\ [][CarouselNext]_vars

\* the page: initEdgePulse's runEdgePulse with the worker behind it
Init == ReadyInit /\ WorkerInit /\ PageInit /\ DocIdle /\ CarouselIdle
Next ==
  \/ RunEdgePulse
  \/ \E p \in Attempts : RegisterRejects(p)
  \/ \E p \in Attempts : RegisterResolves(p)
  \/ \E p \in Attempts : ReadyResolves(p)
  \/ ControllerAppears
  \/ \E p \in Attempts : ControllerTimeout(p)
  \/ ControllerChange
  \/ \E v \in Vendors : ReadinessObserved(v)
  \/ \E v \in Vendors : PageRequestIntercepted(v)
  \/ \E v \in Vendors : WorkerResponseArrives(v)
  \/ \E v \in Vendors, view \in ForeignViews : ForeignResponseArrives(v, view)
  \/ \E v \in Vendors, net \in NetOutcomes : WorkerFetchSettles(v, net)
  \/ \E v \in Vendors : WorkerTimerFires(v)
  \/ \E v \in Vendors, net \in NetOutcomes : DirectFetchSettles(v, net)
  \/ \E v \in Vendors : DirectTimerFires(v)
  \/ Tick
Spec == Init /\ [][Next]_vars

\* What the event loop guarantees of the page flow: runEdgePulse is called, time
\* passes, a due timer runs, a queued event is dispatched, a continuation whose
\* promise has settled runs, and a request the page sent reaches the worker and
\* the worker's response the page. Nothing makes the register promise or the
\* ready promise settle, a controller appear or a vendor fetch answer.
Scheduling ==
  /\ WF_vars(RunEdgePulse)
  /\ WF_vars(Tick)
  /\ WF_vars(ControllerChange)
  /\ \A p \in Attempts : WF_vars(ControllerTimeout(p))
  /\ \A v \in Vendors :
       /\ WF_vars(ReadinessObserved(v))
       /\ WF_vars(PageRequestIntercepted(v))
       /\ WF_vars(WorkerResponseArrives(v))
       /\ WF_vars(WorkerTimerFires(v))
       /\ WF_vars(DirectTimerFires(v))
SpecLive == Init /\ [][Next]_vars /\ Scheduling

\* the same, in an environment where the register promise and the ready promise
\* always settle
RegistrationSettles ==
  \A p \in Attempts :
    /\ WF_vars(RegisterRejects(p) \/ RegisterResolves(p))
    /\ WF_vars(ReadyResolves(p))
SpecLiveSettling == Init /\ [][Next]_vars /\ Scheduling /\ RegistrationSettles

\* ------------------------------------------------------------ claims
VendorKeys == {"cloudflare", "akamai", "fastly", "aws-amazon"}
CallNos == 1..Len(callLog)

\* C1: where service workers are supported, a call of ensureEdgePulseWorker made
\* while a readiness computation is in flight or has succeeded returns the
\* memoized promise and does not call register; every promise handed out stands
\* for exactly one register call, and at most one computation is in flight.
C1_SingleRegistration ==
  /\ \A k \in CallNos :
       callLog[k].was \in {"pending", "true"} =>
         callLog[k].ret = callLog[k].memo /\ ~callLog[k].reg
  /\ \A p \in Attempts :
       promiseState[p] # "none" =>
         Cardinality({k \in CallNos : callLog[k].ret = p /\ callLog[k].reg}) = 1
  /\ registerCalls = Cardinality({k \in CallNos : callLog[k].reg})
  /\ Cardinality({p \in Attempts : promiseState[p] = "pending"}) <= 1

\* two later callers got the promise of the first, one while it was pending and
\* one after it had resolved true
C1_Witness ==
  \E i, j, k \in CallNos :
    /\ callLog[i].reg /\ callLog[j].was = "pending" /\ callLog[k].was = "true"
    /\ callLog[j].ret = callLog[i].ret /\ callLog[k].ret = callLog[i].ret
    /\ registerCalls = 1

\* C2: a readiness computation that ended in failure is not left memoized, and
\* no call is ever answered with a failed memoized promise.
C2_FailureClearsMemo ==
  /\ \A p \in Attempts : promiseState[p] = "false" => readinessPromise # p
  /\ \A k \in CallNos : callLog[k].was # "false"

\* a same-origin GET of the measurement path
IsMeasureRequest(req) ==
  req.method = "GET" /\ req.origin = SelfOrigin /\ req.path = MeasurePath

\* C3: a same-origin GET of /edge-pulse/measure whose id is absent or no key of
\* the vendor table is answered 400 'Unknown vendor id' without any fetch attempt.
C3_UnknownVendorRejected ==
  \A r \in Slots :
    (wPc[r] # "idle" /\ IsMeasureRequest(wReq[r]) /\ wReq[r].id \notin VendorKeys) =>
      /\ wPc[r] = "responded"
      /\ wResp[r].status = 400
      /\ wResp[r].body.error = "Unknown vendor id"
      /\ wLog[r] = <<>>
      /\ wTimer[r] = "none"

C3_Witness ==
  /\ IsMeasureRequest(wReq[ExternalSlot])
  /\ wReq[ExternalSlot].id = "Cloudflare"
  /\ wResp[ExternalSlot].status = 400

\* how the attempts of a log ended, read from what the network did
CorsSucceeded(log) == Len(log) >= 1 /\ log[1].net = "ok"
CorsFailed(log) == Len(log) >= 1 /\ log[1].net \in {"notok", "neterr", "abort"}
NoCorsCompleted(log) == Len(log) >= 2 /\ log[2].net \in {"ok", "notok"}
NoCorsFailed(log) == Len(log) >= 2 /\ log[2].net \in {"neterr", "abort"}
KnownMeasure(r) == IsMeasureRequest(wReq[r]) /\ wReq[r].id \in VendorKeys

\* C4: for a known vendor the cors attempt comes first and the no-cors attempt
\* only after the cors attempt failed; a successful cors attempt is answered 200
\* with mode cors and a non-negative latency, a failed one followed by a no-cors
\* attempt that completes is answered 200 with mode no-cors.
C4_ModeOfFirstSuccess ==
  \A r \in Slots :
    KnownMeasure(r) =>
      /\ Len(wLog[r]) <= 2
      /\ Len(wLog[r]) >= 1 => wLog[r][1].mode = "cors"
      /\ Len(wLog[r]) = 2 => wLog[r][2].mode = "no-cors" /\ CorsFailed(wLog[r])
      /\ wPc[r] = "cors" => wLog[r] = <<>>
      /\ wPc[r] = "no-cors" => Len(wLog[r]) = 1 /\ CorsFailed(wLog[r])
      /\ (wPc[r] = "responded" /\ CorsSucceeded(wLog[r])) =>
           /\ wResp[r].status = 200
           /\ wResp[r].body.mode = "cors"
           /\ IsFinite(wResp[r].body.latency) /\ wResp[r].body.latency.n >= 0
           /\ Len(wLog[r]) = 1
      /\ (wPc[r] = "responded" /\ CorsFailed(wLog[r]) /\ NoCorsCompleted(wLog[r])) =>
           /\ wResp[r].status = 200
           /\ wResp[r].body.mode = "no-cors"
           /\ IsFinite(wResp[r].body.latency) /\ wResp[r].body.latency.n >= 0
      /\ (wPc[r] = "responded" /\ wResp[r].body.mode = "cors") => CorsSucceeded(wLog[r])
      /\ (wPc[r] = "responded" /\ wResp[r].body.mode = "no-cors") =>
           CorsFailed(wLog[r]) /\ NoCorsCompleted(wLog[r])

\* the cors attempt timed out and the no-cors attempt got a response
C4_Witness ==
  /\ wPc[ExternalSlot] = "responded"
  /\ Len(wLog[ExternalSlot]) = 2
  /\ wLog[ExternalSlot][1].net = "abort"
  /\ wLog[ExternalSlot][2].net = "notok"
  /\ wResp[ExternalSlot].body.mode = "no-cors"
  /\ wResp[ExternalSlot].body.latency.n > 0

\* C5: a request for a known vendor is answered 200 or 504, and 504 with
\* 'Measurement failed' exactly when both the cors and the no-cors attempt failed.
C5_GatewayTimeoutIffBothFail ==
  \A r \in Slots :
    (KnownMeasure(r) /\ wPc[r] # "idle") =>
      /\ wPc[r] \in {"cors", "no-cors", "responded"}
      /\ wPc[r] = "responded" =>
           /\ wResp[r].status \in {200, 504}
           /\ wResp[r].status = 504 <=> (CorsFailed(wLog[r]) /\ NoCorsFailed(wLog[r]))
           /\ wResp[r].status = 504 => wResp[r].body.error = "Measurement failed"

C5_Witness ==
  /\ KnownMeasure(ExternalSlot)
  /\ wResp[ExternalSlot].status = 504
  /\ wLog[ExternalSlot][1].net = "notok"
  /\ wLog[ExternalSlot][2].net = "abort"

\* the attempts of a log that the timer ended are failures without a latency
AbortsFail(log) ==
  \A i \in 1..Len(log) : log[i].net = "abort" => log[i].thrown /\ log[i].latency = 0
LastNet(log) == IF log = <<>> THEN "none" ELSE log[Len(log)].net

\* C6: a timed attempt of the worker or of the page is pending only while its
\* timer is armed and not overdue; an attempt its timer ended is a failure and
\* gives no latency (no answer or entry takes a latency from it); an attempt
\* whose fetch settled first has its timer cleared.
C6_TimeoutIsFailure ==
  /\ \A r \in Slots :
       /\ AbortsFail(wLog[r])
       /\ wPc[r] \in {"cors", "no-cors"} =>
            wTimer[r] = "armed" /\ wElapsed[r] <= MEASUREMENT_TIMEOUT
       /\ wTimer[r] = "fired" =>
            wPc[r] = "responded" /\ LastNet(wLog[r]) = "abort" /\ wResp[r].status = 504
       /\ (wPc[r] = "responded" /\ wLog[r] # <<>> /\ LastNet(wLog[r]) # "abort") =>
            wTimer[r] = "cleared"
  /\ \A v \in Vendors :
       /\ AbortsFail(pLog[v])
       /\ pPc[v] \in {"cors", "no-cors"} =>
            pTimer[v] = "armed" /\ pElapsed[v] <= DIRECT_TIMEOUT
       /\ pTimer[v] = "fired" =>
            pPc[v] = "settled" /\ LastNet(pLog[v]) = "abort" /\ entry[v].error
       /\ (pPc[v] = "settled" /\ pLog[v] # <<>> /\ LastNet(pLog[v]) # "abort") =>
            pTimer[v] = "cleared"

\* the timer ended an attempt of the worker and an attempt of the page, and an
\* attempt of the page settled at the deadline before its timer ran
C6_Witness ==
  \E u, v \in Vendors :
    /\ LastNet(wLog[u]) = "abort"
    /\ Len(pLog[v]) = 2 /\ pLog[v][1].net = "abort" /\ pLog[v][2].net = "ok"
    /\ pLog[v][2].latency = DIRECT_TIMEOUT
    /\ pTimer[v] = "cleared"

\* the entry of vendor i as its own measurement determines it: the latency of
\* the worker path when that was used, else that of the last direct attempt, and
\* failed exactly when both direct attempts threw
OwnEntry(i) ==
  LET t == EDGE_VENDOR_TARGETS[i] IN
  IF pWorker[i].used
  THEN [vendor |-> t.vendor, url |-> t.url, latency |-> pWorker[i].latency, error |-> FALSE]
  ELSE IF Len(pLog[i]) = 2 /\ pLog[i][2].thrown
  THEN [vendor |-> t.vendor, url |-> t.url, latency |-> NaN, error |-> TRUE]
  ELSE [vendor |-> t.vendor, url |-> t.url,
        latency |-> Num(pLog[i][Len(pLog[i])].latency), error |-> FALSE]

\* C7: when runEdgePulse renders, the results are one entry per vendor, the i-th
\* that of the i-th vendor whatever the settle order, each with a finite latency
\* and error false, or with error true and latency NaN, and each as the vendor's
\* own measurement determines it.
C7_ResultsInInputOrder ==
  grid = "results" =>
    /\ DOMAIN results = Vendors
    /\ Len(settleOrder) = Cardinality(Vendors)
    /\ \A i \in Vendors :
         /\ results[i].vendor = EDGE_VENDOR_TARGETS[i].vendor
         /\ \/ IsFinite(results[i].latency) /\ ~results[i].error
            \/ results[i].latency = NaN /\ results[i].error
         /\ results[i] = OwnEntry(i)

\* the second vendor settled first, with a latency; the first one failed
C7_Witness ==
  /\ grid = "results"
  /\ settleOrder[1] = 2 /\ settleOrder[2] = 1
  /\ results[1].error /\ ~results[2].error

\* C8: when the worker path was taken and its response was not OK or carried no
\* finite latency, the worker result is discarded and measureViaDirectFetch
\* measures: the vendor's entry comes from the direct attempts.
C8_InvalidWorkerResultDiscarded ==
  \A v \in Vendors :
    (pWorker[v].tried /\ (~Ok(pWorker[v].status) \/ ~IsFinite(pWorker[v].latency))) =>
      /\ ~pWorker[v].used
      /\ pPc[v] \in {"cors", "no-cors", "settled"}
      /\ pPc[v] = "settled" =>
           /\ pLog[v] # <<>>
           /\ entry[v].error \/ entry[v].latency = Num(pLog[v][Len(pLog[v])].latency)

\* the body {"latency": "not-a-number"} was received and the vendor got a
\* latency from the direct no-cors attempt
C8_Witness ==
  \E v \in Vendors :
    /\ pWorker[v].latency = Str("not-a-number")
    /\ pPc[v] = "settled" /\ ~entry[v].error
    /\ Len(pLog[v]) = 2

\* C9: the fetch listener answers no request of another origin and no request
\* whose method is neither GET nor OPTIONS, and among same-origin GET requests
\* only those of /edge-pulse/measure.
C9_ForeignRequestsFallThrough ==
  \A r \in Slots :
    wPc[r] # "idle" =>
      /\ wReq[r].origin # SelfOrigin => wPc[r] = "fallthrough"
      /\ wReq[r].method \notin {"GET", "OPTIONS"} => wPc[r] = "fallthrough"
      /\ (wReq[r].method = "GET" /\ wReq[r].origin = SelfOrigin /\ wReq[r].path # MeasurePath)
           => wPc[r] = "fallthrough"

CountId(elems, id) == Cardinality({i \in 1..Len(elems) : elems[i].id = id})
Neither(doc) == ~HasId(doc, SCRIPT_ID) /\ ~HasId(doc, INLINE_SNIPPET_ID)
\* what holds of every call sequence on every document: the first call on a
\* document with neither element returns true, later calls add nothing and
\* return false
FirstInsertsLaterDoNot ==
  /\ (returns # <<>> /\ Neither(doc0)) => returns[1].ret /\ returns[1].added = 2
  /\ \A k \in 2..Len(returns) : ~returns[k].ret /\ returns[k].added = 0
OneOfEachInHead ==
  CountId(head, SCRIPT_ID) = 1 /\ CountId(head, INLINE_SNIPPET_ID) = 1
\* before the first call, neither id is carried by an element outside
\* document.head
CleanStart ==
  \A id \in {SCRIPT_ID, INLINE_SNIPPET_ID} : CountId(doc0.body, id) = 0

\* C10 as stated: after one or more calls on any document, document.head holds
\* exactly one element of each id; the first call on a document with neither
\* returns true; later calls insert nothing and return false.
C10_Original == returns # <<>> => (OneOfEachInHead /\ FirstInsertsLaterDoNot)

\* C10 as amended: the same, with exactly one element of each id in
\* document.head claimed only of documents that, before the first call, carry
\* neither id on an element outside document.head.
C10_Idempotent ==
  returns # <<>> => ((CleanStart => OneOfEachInHead) /\ FirstInsertsLaterDoNot)

\* three calls on a document that had the page's own script tag in its head
C10_Witness ==
  /\ Len(returns) = 3
  /\ CleanStart
  /\ CountId(doc0.head, SCRIPT_ID) = 1 /\ ~HasId(doc0, INLINE_SNIPPET_ID)
  /\ returns[1].ret /\ ~returns[2].ret /\ ~returns[3].ret

\* the timed fetches of vendor v's URL started so far: those of the worker for
\* the page's request (counted by the page once the response is delivered) and
\* those of the page's own direct attempts
WorkerFetches(v) ==
  IF pWorker[v].tried THEN pWorker[v].fetches
  ELSE Len(wLog[v]) + (IF wPc[v] \in {"cors", "no-cors"} THEN 1 ELSE 0)
DirectFetches(v) ==
  Len(pLog[v]) + (IF pPc[v] \in {"cors", "no-cors"} THEN 1 ELSE 0)
VendorFetches(v) == WorkerFetches(v) + DirectFetches(v)

\* C11: in one page load the URL of a vendor is fetched at most twice in total,
\* by the worker and the page together: one cors attempt and one no-cors attempt.
C11_AtMostTwoFetches == \A v \in Vendors : VendorFetches(v) <= 2

\* what the code keeps to: two attempts of the worker and two of the page
C11_AtMostFourFetches ==
  \A v \in Vendors : WorkerFetches(v) <= 2 /\ DirectFetches(v) <= 2

\* C12: under fair scheduling of timers and events, whatever registration, the
\* controller handshake, the worker and the vendor fetches do or fail to do,
\* runEdgePulse eventually replaces the placeholder with the rendered results.
C12_EventuallyRendered == <>(grid = "results")

\* the controller wait of computation p, as it stands
WaitState(p) ==
  /\ compPc[p] = "controller" =>
       /\ promiseState[p] = "pending"
       /\ timeoutId[p] = "armed" /\ listening[p] /\ ~resolved[p]
       /\ waited[p] <= CONTROLLER_TIMEOUT
  /\ timeoutId[p] \in {"fired", "cleared"} =>
       /\ compPc[p] = "done" /\ resolved[p] /\ ~listening[p]
       /\ promiseState[p] \in {"true", "false"}
  /\ timeoutId[p] = "cleared" => promiseState[p] = "true"
  /\ promiseState[p] = "false" /\ timeoutId[p] = "fired" => waited[p] = CONTROLLER_TIMEOUT
\* the step that ends the wait of p decides it by whether a controller is there;
\* once decided, nothing of it changes
WaitStep(p) ==
  /\ (compPc[p] = "controller" /\ compPc'[p] # "controller") =>
       /\ compPc'[p] = "done"
       /\ promiseState'[p] = IF controller THEN "true" ELSE "false"
       /\ timeoutId'[p] = "cleared" => controller
  /\ promiseState[p] \in {"true", "false"} =>
       /\ promiseState'[p] = promiseState[p]
       /\ resolved'[p] = resolved[p]
       /\ timeoutId'[p] = timeoutId[p]
       /\ listening'[p] = listening[p]

\* C13: the controller wait is decided exactly once, by the controllerchange
\* event or the 5-second timer: readiness is true when a controller has appeared
\* by then and false otherwise, the first of the two removes the listener and
\* disarms the timer so that the second changes nothing, and the wait never
\* outlasts the timeout.
C13_WaitDecidedOnce ==
  /\ [](\A p \in Attempts : WaitState(p))
  /\ [][\A p \in Attempts : WaitStep(p)]_vars

\* one wait was ended by its timer without a controller, a later one by the
\* controllerchange event
C13_Witness ==
  \E p, q \in Attempts :
    /\ timeoutId[p] = "fired" /\ promiseState[p] = "false"
    /\ timeoutId[q] = "cleared" /\ promiseState[q] = "true"

\* where the last goTo call has left the index: next moves one up and from the
\* last item to the first, previous one down and from the first item to the last
Wrapped ==
  /\ lastGoTo.direction = 1 =>
       index = Num(IF lastGoTo.from.n = insights - 1 THEN 0 ELSE lastGoTo.from.n + 1)
  /\ lastGoTo.direction = -1 =>
       index = Num(IF lastGoTo.from.n = 0 THEN insights - 1 ELSE lastGoTo.from.n - 1)

\* C14: with a non-empty insights list, after any clicks and auto-advance ticks
\* the index is an integer in 0..n-1, every move wraps at the two ends, and
\* render has read an existing item: the carousel shows the item at the index.
C14_IndexInRange ==
  (carouselPc # "loading" /\ insights >= 1) =>
    /\ carouselPc = "running"
    /\ IsFinite(index) /\ index.n \in 0..(insights - 1)
    /\ shown = index
    /\ Wrapped

\* a previous click at the first item of a list of three or more has wrapped to
\* the last item, after an auto-advance period has passed
C14_Witness ==
  /\ insights >= 3
  /\ lastGoTo = [direction |-> -1, from |-> Num(0)]
  /\ index = Num(insights - 1)
  /\ shown = index
  /\ sinceAdvance = AUTO_ADVANCE_MS
====
